---- MODULE Spec2Model ----
(***************************************************************************)
(* Model of script.py: one run of LeakedCookie.run.  The run fetches the   *)
(* target's cookies, optionally prints them, obtains the list of leaked    *)
(* JWT secrets (remote download with a local-file fallback), flags the     *)
(* cookies whose value is in that list, optionally prints the result and   *)
(* writes it as JSON to the output file.                                   *)
(*                                                                         *)
(* A Python str is a sequence of one-character tokens.  The control        *)
(* characters and the characters JSON escapes are named tokens:            *)
(* "LF" (\n), "CR" (\r), "QUOTE" (the double quote), "BSLASH" (\), " ".    *)
(* A cookie value is a str, as CookiesParser declares its input            *)
(* (Dict[str, str]); a dict is the sequence of its items in insertion      *)
(* order.                                                                  *)
(***************************************************************************)
EXTENDS Integers, Sequences, FiniteSets, TLC

VARIABLES
    pc,           \* position of the run inside LeakedCookie.run
    config,       \* RunConfig: quiet, print_cookies, no_color
    target,       \* outcome of the GET to the target
    cookies,      \* CookiesParser._cookies: sequence of <<name, value>>
    remote,       \* outcome of the GET to JWT_SECRETS_FILE_URL, once made
    localFile,    \* jwt.secrets.list as found by open(), once tried
    jwt_secrets,  \* CookiesParser._jwt_secrets
    result,       \* LeakedCookie._result once parse_cookies returned
    console,      \* lines printed to stdout
    outFile,      \* content of the file at config.output
    trace,        \* the run's events, in order
    exitStatus    \* <<>> while the process runs, <<code>> once it has ended

vars == <<pc, config, target, cookies, remote, localFile, jwt_secrets,
          result, console, outFile, trace, exitStatus>>

----------------------------------------------------------------------------
(* Bounds and input domains *)

\* longest remote body / local file, in characters
MaxLen == 3

SUCCESS_RESPONSE_CODE == 200

LF == "LF"
CR == "CR"
QUOTE == "QUOTE"
BSLASH == "BSLASH"

RECURSIVE SeqsUpTo(_, _)
SeqsUpTo(S, n) ==
    IF n = 0 THEN {<<>>}
    ELSE LET shorter == SeqsUpTo(S, n - 1)
         IN  shorter \cup {Append(s, c) : s \in {t \in shorter : Len(t) = n - 1}, c \in S}

\* characters of a secrets list: a letter and the line feed
TextChars == {"a", LF}

\* secrets lists with the other line boundaries (\r, \r\n) and with the
\* characters JSON escapes
ExtraTexts ==
    {<<"a", CR, LF>>, <<"a", CR, "a">>, <<CR>>,
     <<QUOTE>>, <<BSLASH, "a">>, <<QUOTE, LF, BSLASH, "a">>}

Texts == SeqsUpTo(TextChars, MaxLen) \cup ExtraTexts

\* cookie names and values the target may set
CookieNames == {<<"s">>, <<"t">>}

CookieValues ==
    {<<>>, <<"a">>, <<"a", LF>>, <<QUOTE>>, <<BSLASH, "a">>}

\* dicts in insertion order: sequences of <<name, value>> with distinct names
CookieSets ==
    LET one == {<< <<n, v>> >> : n \in CookieNames, v \in CookieValues}
        two == {<< <<n1, v1>>, <<n2, v2>> >> :
                  n1 \in CookieNames, n2 \in CookieNames,
                  v1 \in CookieValues, v2 \in CookieValues}
    IN  {<<>>} \cup one \cup {c \in two : c[1][1] # c[2][1]}

Range(s) == {s[i] : i \in 1..Len(s)}

----------------------------------------------------------------------------
(* Line splitting *)

IsTerminator(c) == c \in {LF, CR}

HasTerminator(s) == \E i \in 1..Len(s) : IsTerminator(s[i])

\* index of the first character after the line boundary that starts at i
AfterBoundary(text, i) ==
    IF text[i] = CR /\ i < Len(text) /\ text[i + 1] = LF THEN i + 2 ELSE i + 1

RECURSIVE SplitLinesFrom(_, _, _, _)
SplitLinesFrom(text, i, cur, acc) ==
    IF i > Len(text) THEN (IF cur = <<>> THEN acc ELSE Append(acc, cur))
    ELSE IF IsTerminator(text[i])
         THEN SplitLinesFrom(text, AfterBoundary(text, i), <<>>, Append(acc, cur))
         ELSE SplitLinesFrom(text, i + 1, Append(cur, text[i]), acc)

\* str.splitlines(): the lines without their terminators
SplitLines(text) == SplitLinesFrom(text, 1, <<>>, <<>>)

RECURSIVE ReadLinesFrom(_, _, _, _)
ReadLinesFrom(text, i, cur, acc) ==
    IF i > Len(text) THEN (IF cur = <<>> THEN acc ELSE Append(acc, cur))
    ELSE IF IsTerminator(text[i])
         THEN ReadLinesFrom(text, AfterBoundary(text, i), <<>>, Append(acc, Append(cur, LF)))
         ELSE ReadLinesFrom(text, i + 1, Append(cur, text[i]), acc)

\* readlines() that strips the terminators
ReadLinesStripped(text) == SplitLines(text)

\* readlines() of a file opened in text mode: every line keeps its
\* terminator, which universal newlines has translated to \n
ReadLines(text) == ReadLinesFrom(text, 1, <<>>, <<>>)

----------------------------------------------------------------------------
(* JSON *)

TITLE == <<"t", "i", "t", "l", "e">>
VALUE == <<"v", "a", "l", "u", "e">>

\* the dict {'title': key, 'value': cookie}: its items in insertion order
MatchResult(key, cookie) == << <<TITLE, key>>, <<VALUE, cookie>> >>

\* json's escape of one character (ESCAPE_ASCII)
EscapeChar(c) ==
    CASE c = QUOTE  -> <<BSLASH, QUOTE>>
      [] c = BSLASH -> <<BSLASH, BSLASH>>
      [] c = LF     -> <<BSLASH, "n">>
      [] c = CR     -> <<BSLASH, "r">>
      [] OTHER      -> <<c>>

RECURSIVE Escape(_)
Escape(s) == IF s = <<>> THEN <<>> ELSE EscapeChar(Head(s)) \o Escape(Tail(s))

\* a string written between quotes without escaping
JsonStrRaw(s) == <<QUOTE>> \o s \o <<QUOTE>>

JsonStr(s) == <<QUOTE>> \o Escape(s) \o <<QUOTE>>

\* items joined with ", "
RECURSIVE JoinComma(_)
JoinComma(parts) ==
    IF parts = <<>> THEN <<>>
    ELSE IF Len(parts) = 1 THEN parts[1]
    ELSE parts[1] \o <<",", " ">> \o JoinComma(Tail(parts))

JsonDict(d) ==
    <<"{">> \o JoinComma([i \in 1..Len(d) |-> JsonStr(d[i][1]) \o <<":", " ">> \o JsonStr(d[i][2])])
            \o <<"}">>

\* json.dumps of a list of dicts of strings, default separators
JsonDumps(list) ==
    <<"[">> \o JoinComma([i \in 1..Len(list) |-> JsonDict(list[i])]) \o <<"]">>

(* json.loads, for text made of lists of dicts of strings.  A parse gives   *)
(* [ok, val, rest]: whether it succeeded, the value, the unread text.      *)

ParseFail == [ok |-> FALSE, val |-> <<>>, rest |-> <<>>]

Parsed(v, r) == [ok |-> TRUE, val |-> v, rest |-> r]

Expect(s, c) == s # <<>> /\ Head(s) = c

RECURSIVE SkipWs(_)
SkipWs(s) == IF Expect(s, " ") THEN SkipWs(Tail(s)) ELSE s

Unescape(e) ==
    CASE e = "n" -> LF
      [] e = "r" -> CR
      [] OTHER   -> e

RECURSIVE ScanStr(_, _)
ScanStr(s, acc) ==
    IF s = <<>> THEN ParseFail
    ELSE IF Head(s) = QUOTE THEN Parsed(acc, Tail(s))
    ELSE IF Head(s) = BSLASH
         THEN IF Len(s) >= 2 /\ s[2] \in {QUOTE, BSLASH, "n", "r"}
              THEN ScanStr(SubSeq(s, 3, Len(s)), Append(acc, Unescape(s[2])))
              ELSE ParseFail
    ELSE IF IsTerminator(Head(s)) THEN ParseFail
    ELSE ScanStr(Tail(s), Append(acc, Head(s)))

ParseStr(s) == IF Expect(s, QUOTE) THEN ScanStr(Tail(s), <<>>) ELSE ParseFail

RECURSIVE ParseItems(_, _)
ParseItems(s, acc) ==
    LET k == ParseStr(SkipWs(s))
        afterKey == IF k.ok THEN SkipWs(k.rest) ELSE <<>>
        v == IF Expect(afterKey, ":") THEN ParseStr(SkipWs(Tail(afterKey))) ELSE ParseFail
        afterVal == IF v.ok THEN SkipWs(v.rest) ELSE <<>>
        items == Append(acc, <<k.val, v.val>>)
    IN  IF ~(k.ok /\ v.ok) THEN ParseFail
        ELSE IF Expect(afterVal, ",") THEN ParseItems(Tail(afterVal), items)
        ELSE IF Expect(afterVal, "}") THEN Parsed(items, Tail(afterVal))
        ELSE ParseFail

ParseDict(s) ==
    IF ~Expect(s, "{") THEN ParseFail
    ELSE IF Expect(SkipWs(Tail(s)), "}") THEN Parsed(<<>>, Tail(SkipWs(Tail(s))))
    ELSE ParseItems(Tail(s), <<>>)

RECURSIVE ParseElements(_, _)
ParseElements(s, acc) ==
    LET d == ParseDict(SkipWs(s))
        after == IF d.ok THEN SkipWs(d.rest) ELSE <<>>
        elems == Append(acc, d.val)
    IN  IF ~d.ok THEN ParseFail
        ELSE IF Expect(after, ",") THEN ParseElements(Tail(after), elems)
        ELSE IF Expect(after, "]") THEN Parsed(elems, Tail(after))
        ELSE ParseFail

ParseList(s) ==
    IF ~Expect(s, "[") THEN ParseFail
    ELSE IF Expect(SkipWs(Tail(s)), "]") THEN Parsed(<<>>, Tail(SkipWs(Tail(s))))
    ELSE ParseElements(Tail(s), <<>>)

\* json.loads(text): [ok, val]; ok only if the whole text is one list
JsonLoads(text) ==
    LET p == ParseList(SkipWs(text))
    IN  IF p.ok /\ SkipWs(p.rest) = <<>> THEN [ok |-> TRUE, val |-> p.val]
        ELSE [ok |-> FALSE, val |-> <<>>]

----------------------------------------------------------------------------
(* Console *)

Line(color, kind, key, val) == [color |-> color, kind |-> kind, key |-> key, val |-> val]

\* PrettyPrint.print_in_color: the colour a line is printed in
ColorOf(cfg, danger) ==
    IF cfg.no_color THEN "none" ELSE IF danger THEN "red" ELSE "green"

PrintInColor(cfg, kind, key, val, danger) == Line(ColorOf(cfg, danger), kind, key, val)

\* PrettyPrint.print_cookies: a header, then one line per cookie
PrintCookies(cfg, c) ==
    <<PrintInColor(cfg, "received_cookies", <<>>, <<>>, FALSE)>>
    \o [i \in 1..Len(c) |-> PrintInColor(cfg, "cookie", c[i][1], c[i][2], FALSE)]

RECURSIVE Flatten(_)
Flatten(seqs) == IF seqs = <<>> THEN <<>> ELSE Head(seqs) \o Flatten(Tail(seqs))

\* PrettyPrint.print_result: the items of every dict of the result, or the
\* success line when the result is empty
PrintResult(cfg, res) ==
    IF res # <<>>
    THEN <<PrintInColor(cfg, "secrets_found", <<>>, <<>>, TRUE)>>
         \o Flatten([i \in 1..Len(res) |->
                [j \in 1..Len(res[i]) |->
                    PrintInColor(cfg, "item", res[i][j][1], res[i][j][2], TRUE)]])
    ELSE <<PrintInColor(cfg, "no_secrets", <<>>, <<>>, FALSE)>>

----------------------------------------------------------------------------
(* The target request *)

TargetFailures == {"invalid_url", "dns", "refused", "timeout"}

\* the exception session.get raises for each failure of the target request
ExceptionOf(failure) ==
    CASE failure = "invalid_url" -> "InvalidURL"
      [] failure = "dns"         -> "ClientConnectorError"
      [] failure = "refused"     -> "ClientConnectorError"
      [] failure = "timeout"     -> "TimeoutError"

\* only the InvalidURL clause
CaughtInvalidUrlOnly(exc) == exc = "InvalidURL"

\* the except clauses of make_request_to_target
Caught(exc) == exc \in {"InvalidURL", "ClientConnectorError"}

MessageOf(exc) == IF exc = "InvalidURL" THEN "wrong_url" ELSE "cannot_connect"

\* exit() with no argument raises SystemExit(None): the process ends with
\* status 0
ExitCall == <<0>>

\* an exception nothing catches: traceback, status 1
Unhandled == <<1>>

\* main() returned
Completed == <<0>>

----------------------------------------------------------------------------
(* The secrets source *)

Pending == [kind |-> "pending", status |-> 0, body |-> <<>>]

Response(status, body) == [kind |-> "response", status |-> status, body |-> body]

Raised(exc) == [kind |-> exc, status |-> 0, body |-> <<>>]

RemoteOutcomes ==
    {Response(SUCCESS_RESPONSE_CODE, b) : b \in Texts}
    \cup {Response(500, <<"a">>), Raised("ClientConnectorError"), Raised("Exception")}

Untried == [state |-> "untried", content |-> <<>>]

Missing == [state |-> "missing", content |-> <<>>]

Found(text) == [state |-> "read", content |-> text]

LocalFiles == {Missing} \cup {Found(t) : t \in Texts}

\* download_jwt_secrets takes any response for the list
RemoteSucceededAnyStatus(r) == r.kind = "response"

\* download_jwt_secrets returns the body's lines only on status 200;
\* everything else raises into the except clause
RemoteSucceeded(r) == r.kind = "response" /\ r.status = SUCCESS_RESPONSE_CODE

----------------------------------------------------------------------------
(* The matcher *)

\* the loop prepends instead of appending
RECURSIVE MatchReversed(_, _)
MatchReversed(c, secrets) ==
    IF c = <<>> THEN <<>>
    ELSE LET rest == MatchReversed(Tail(c), secrets)
             key == Head(c)[1]
             cookie == Head(c)[2]
         IN  IF cookie \in Range(secrets)
             THEN Append(rest, MatchResult(key, cookie))
             ELSE rest

\* the loop of parse_cookies: one pass over cookies.items()
RECURSIVE Match(_, _)
Match(c, secrets) ==
    IF c = <<>> THEN <<>>
    ELSE LET rest == Match(Tail(c), secrets)
             key == Head(c)[1]
             cookie == Head(c)[2]
         IN  IF cookie \in Range(secrets)
             THEN <<MatchResult(key, cookie)>> \o rest
             ELSE rest

----------------------------------------------------------------------------
(* The run *)

Configs == [quiet : BOOLEAN, print_cookies : BOOLEAN, no_color : BOOLEAN]

OldContent == <<"o", "l", "d">>

File(text) == [exists |-> TRUE, content |-> text]

NoFile == [exists |-> FALSE, content |-> <<>>]

Init ==
    /\ pc = "start"
    /\ config \in Configs
    /\ target = "pending"
    /\ cookies = <<>>
    /\ remote = Pending
    /\ localFile = Untried
    /\ jwt_secrets = <<>>
    /\ result = <<>>
    /\ console = <<>>
    /\ outFile \in {NoFile, File(OldContent)}
    /\ trace = <<>>
    /\ exitStatus = <<>>

\* Requests.make_request_to_target, for each outcome of the GET
MakeRequestToTarget ==
    /\ pc = "start"
    /\ \/ \E c \in CookieSets :
            /\ target' = "ok"
            /\ cookies' = c
            /\ pc' = "fetched"
            /\ trace' = Append(trace, "target_fetch")
            /\ UNCHANGED <<console, exitStatus>>
       \/ \E failure \in TargetFailures :
            /\ target' = failure
            /\ UNCHANGED cookies
            /\ IF Caught(ExceptionOf(failure))
               THEN /\ console' = Append(console,
                          PrintInColor(config, MessageOf(ExceptionOf(failure)), <<>>, <<>>, TRUE))
                    /\ trace' = trace \o <<"target_fetch", "print_error", "exit">>
                    /\ exitStatus' = ExitCall
                    /\ pc' = "exited"
               ELSE /\ UNCHANGED console
                    /\ trace' = trace \o <<"target_fetch", "crash">>
                    /\ exitStatus' = Unhandled
                    /\ pc' = "crashed"
    /\ UNCHANGED <<config, remote, localFile, jwt_secrets, result, outFile>>

\* run, line 207
ShouldPrintCookies(cfg, c) == cfg.print_cookies /\ c # <<>>

PrintCookiesStep ==
    /\ pc = "fetched"
    /\ pc' = "cookies_done"
    /\ IF ShouldPrintCookies(config, cookies)
       THEN /\ console' = console \o PrintCookies(config, cookies)
            /\ trace' = Append(trace, "print_cookies")
       ELSE UNCHANGED <<console, trace>>
    /\ UNCHANGED <<config, target, cookies, remote, localFile, jwt_secrets, result,
                   outFile, exitStatus>>

\* a missing file read as an empty list
ReadJwtSecretsFileOrEmpty(f) ==
    IF f.state = "read" THEN [ok |-> TRUE, lines |-> ReadLines(f.content)]
    ELSE [ok |-> TRUE, lines |-> <<>>]

\* ReadWriteDocuments.read_jwt_secrets_file: open() raises when the file is
\* missing, else the lines of the file
ReadJwtSecretsFile(f) ==
    IF f.state = "read" THEN [ok |-> TRUE, lines |-> ReadLines(f.content)]
    ELSE [ok |-> FALSE, lines |-> <<>>]

\* the local files download_jwt_secrets may meet for a remote outcome
FilesTried(r) == IF RemoteSucceeded(r) THEN {Untried} ELSE LocalFiles

\* Requests.download_jwt_secrets
DownloadJwtSecrets(r, f) ==
    IF RemoteSucceeded(r) THEN [ok |-> TRUE, lines |-> SplitLines(r.body)]
    ELSE ReadJwtSecretsFile(f)

\* the events of a call of download_jwt_secrets
DownloadEvents(r) ==
    IF RemoteSucceeded(r) THEN <<"secrets_fetch">> ELSE <<"secrets_fetch", "local_read">>

\* the body of parse_cookies: the download, then the loop over the cookies
DownloadAndMatch ==
    \E r \in RemoteOutcomes : \E f \in FilesTried(r) :
        LET d == DownloadJwtSecrets(r, f)
        IN  /\ remote' = r
            /\ localFile' = f
            /\ IF d.ok
               THEN /\ jwt_secrets' = d.lines
                    /\ result' = Match(cookies, d.lines)
                    /\ trace' = trace \o DownloadEvents(r) \o <<"match">>
                    /\ pc' = "parsed"
                    /\ UNCHANGED exitStatus
               ELSE /\ trace' = trace \o DownloadEvents(r) \o <<"crash">>
                    /\ pc' = "crashed"
                    /\ exitStatus' = Unhandled
                    /\ UNCHANGED <<jwt_secrets, result>>

\* parse_cookies that returns [] for an empty CookieSet without asking for
\* the list
ParseCookiesShortCircuit ==
    /\ pc = "cookies_done"
    /\ IF cookies = <<>>
       THEN /\ pc' = "parsed"
            /\ result' = <<>>
            /\ trace' = Append(trace, "match")
            /\ UNCHANGED <<remote, localFile, jwt_secrets, exitStatus>>
       ELSE DownloadAndMatch
    /\ UNCHANGED <<config, target, cookies, console, outFile>>

\* CookiesParser.parse_cookies, awaited by run
ParseCookies ==
    /\ pc = "cookies_done"
    /\ DownloadAndMatch
    /\ UNCHANGED <<config, target, cookies, console, outFile>>

\* run, line 214
ShouldPrintResult(cfg) == ~cfg.quiet

PrintResultStep ==
    /\ pc = "parsed"
    /\ pc' = "reported"
    /\ IF ShouldPrintResult(config)
       THEN /\ console' = console \o PrintResult(config, result)
            /\ trace' = Append(trace, "print_result")
       ELSE UNCHANGED <<console, trace>>
    /\ UNCHANGED <<config, target, cookies, remote, localFile, jwt_secrets, result,
                   outFile, exitStatus>>

\* the file is written only when the result is printed
SaveResultUnlessQuiet ==
    /\ pc = "reported"
    /\ IF config.quiet
       THEN UNCHANGED <<outFile, trace>>
       ELSE /\ outFile' = File(JsonDumps(result))
            /\ trace' = Append(trace, "file_write")
    /\ pc' = "done"
    /\ exitStatus' = Completed
    /\ UNCHANGED <<config, target, cookies, remote, localFile, jwt_secrets, result,
                   console>>

\* the file is written, then a line says so
SaveThenAnnounce ==
    /\ pc = "reported"
    /\ outFile' = File(JsonDumps(result))
    /\ console' = Append(console, PrintInColor(config, "saved", <<>>, <<>>, FALSE))
    /\ trace' = trace \o <<"file_write", "print_result">>
    /\ pc' = "done"
    /\ exitStatus' = Completed
    /\ UNCHANGED <<config, target, cookies, remote, localFile, jwt_secrets, result>>

\* ReadWriteDocuments.save_result_to_file, then the return of run and main
SaveResultToFile ==
    /\ pc = "reported"
    /\ outFile' = File(JsonDumps(result))
    /\ trace' = Append(trace, "file_write")
    /\ pc' = "done"
    /\ exitStatus' = Completed
    /\ UNCHANGED <<config, target, cookies, remote, localFile, jwt_secrets, result,
                   console>>

Next ==
    \/ MakeRequestToTarget
    \/ PrintCookiesStep
    \/ ParseCookies
    \/ PrintResultStep
    \/ SaveResultToFile

Spec == Init /\ [][Next]_vars

----------------------------------------------------------------------------
(* Properties *)

Count(tr, e) == Cardinality({i \in 1..Len(tr) : tr[i] = e})

Happened(e) == \E i \in 1..Len(trace) : trace[i] = e

PastParse == {"parsed", "reported", "done"}

\* the remote fetch completed with status 200
RemoteOk == remote.kind = "response" /\ remote.status = SUCCESS_RESPONSE_CODE

RemoteFailed == remote.kind # "pending" /\ ~RemoteOk

\* cookie j was flagged: the result holds its {title, value} entry
Flagged(j) ==
    \E i \in 1..Len(result) : result[i] = MatchResult(cookies[j][1], cookies[j][2])

\* position in the CookieSet of the cookie named n (0 when there is none)
IndexOfName(n) ==
    IF \E j \in 1..Len(cookies) : cookies[j][1] = n
    THEN CHOOSE j \in 1..Len(cookies) : cookies[j][1] = n
    ELSE 0

RECURSIVE WithoutTerminators(_)
WithoutTerminators(text) ==
    IF text = <<>> THEN <<>>
    ELSE IF IsTerminator(Head(text)) THEN WithoutTerminators(Tail(text))
    ELSE <<Head(text)>> \o WithoutTerminators(Tail(text))

\* C2: the secrets list is the remote body split on line boundaries exactly
\* when the remote fetch completed with status 200; on every other outcome
\* the local file is read exactly once and its lines are the list; the run
\* ends at this step only when the local file is missing.
C2_DownloadOrFallback ==
    remote.kind # "pending" =>
        /\ RemoteOk <=> localFile.state = "untried"
        /\ RemoteOk =>
              /\ pc \in PastParse
              /\ jwt_secrets = SplitLines(remote.body)
              /\ \A k \in 1..Len(jwt_secrets) : ~HasTerminator(jwt_secrets[k])
              /\ Flatten(jwt_secrets) = WithoutTerminators(remote.body)
              /\ Count(trace, "local_read") = 0
        /\ ~RemoteOk =>
              /\ Count(trace, "local_read") = 1
              /\ localFile.state = "read" =>
                    /\ pc \in PastParse
                    /\ jwt_secrets = ReadLines(localFile.content)
              /\ localFile.state = "missing" <=> pc = "crashed"

C2_Witness ==
    /\ pc = "parsed"
    /\ remote.kind = "response"
    /\ remote.status # SUCCESS_RESPONSE_CODE
    /\ localFile.state = "read"
    /\ Len(jwt_secrets) = 2

\* the run met a fatal failure of the Cookie Fetcher or of the Secrets Source
Fatal ==
    \/ target \in TargetFailures
    \/ RemoteFailed /\ localFile.state = "missing"

\* C3: after a fatal failure of the target fetch or of the secrets source no
\* later step runs: the result is not printed, the output file is not
\* written and keeps what it held, and the run has ended.
C3_FatalStopsRun ==
    Fatal =>
        /\ pc \in {"exited", "crashed"}
        /\ ~Happened("print_result")
        /\ ~Happened("file_write")
        /\ ~Happened("match")
        /\ outFile \in {NoFile, File(OldContent)}
        /\ ~ENABLED Next

C3_Witness ==
    /\ RemoteFailed
    /\ localFile.state = "missing"
    /\ pc = "crashed"
    /\ Happened("print_cookies")
    /\ outFile = File(OldContent)

\* C4: a run whose target request failed with a malformed URL or a
\* connection failure has ended with a non-zero exit status.
C4_NonZeroExit ==
    target \in TargetFailures => exitStatus # <<>> /\ exitStatus # <<0>>

HasMessage(kind) == \E i \in 1..Len(console) : console[i].kind = kind

BothSucceeded ==
    /\ target = "ok"
    /\ remote.kind # "pending"
    /\ RemoteOk \/ localFile.state = "read"

\* C6: in a run whose cookie fetch and secrets source both succeeded the
\* run stops only after the output file was written, it is written once,
\* with the JSON text of the result ([] for the empty result), whatever the
\* quiet, print-cookies and no-color flags; quiet drops only the printed
\* summary.
C6_FileAlwaysWritten ==
    /\ BothSucceeded =>
          /\ pc \in PastParse
          /\ pc = "parsed" => ENABLED PrintResultStep
          /\ pc = "reported" => ENABLED SaveResultToFile
          /\ Count(trace, "file_write") = (IF pc = "done" THEN 1 ELSE 0)
    /\ pc = "done" =>
          /\ outFile = File(JsonDumps(result))
          /\ result = <<>> => outFile.content = <<"[", "]">>
          /\ Happened("print_result") <=> ~config.quiet
          /\ exitStatus = <<0>>

C6_Witness ==
    /\ pc = "done"
    /\ config.quiet
    /\ ~config.print_cookies
    /\ result # <<>>
    /\ console = <<>>
    /\ outFile.content # <<"[", "]">>

\* the place of an event in the pipeline's order
Rank(e) ==
    CASE e = "target_fetch"  -> 1
      [] e = "print_error"   -> 2
      [] e = "print_cookies" -> 2
      [] e = "secrets_fetch" -> 3
      [] e = "local_read"    -> 4
      [] e = "match"         -> 5
      [] e = "print_result"  -> 6
      [] e = "file_write"    -> 7
      [] e = "exit"          -> 8
      [] e = "crash"         -> 8

IsPrint(e) == e \in {"print_error", "print_cookies", "print_result"}

\* C7: the events of a run follow the order target fetch, cookie print,
\* secrets fetch (with its local read) and match, result print, file write;
\* the cookies are printed exactly when print-cookies is set and the
\* CookieSet is not empty, the result exactly when quiet is not set; no
\* secrets fetch precedes the return of the target fetch and nothing is
\* printed after the file write.
C7_FixedOrder ==
    /\ \A i \in 1..Len(trace) : \A j \in 1..Len(trace) :
          i < j => Rank(trace[i]) < Rank(trace[j])
    /\ trace # <<>> => trace[1] = "target_fetch"
    /\ Happened("secrets_fetch") => target = "ok"
    /\ pc \in {"cookies_done"} \cup PastParse =>
          (Happened("print_cookies") <=> config.print_cookies /\ cookies # <<>>)
    /\ pc \in {"reported", "done"} =>
          (Happened("print_result") <=> ~config.quiet)
    /\ pc = "done" => trace[Len(trace)] = "file_write"
    /\ console # <<>> <=> \E i \in 1..Len(trace) : IsPrint(trace[i])

C7_Witness ==
    /\ pc = "done"
    /\ trace = <<"target_fetch", "print_cookies", "secrets_fetch", "local_read",
                 "match", "print_result", "file_write">>

\* C8: the text save_result_to_file wrote parses back to a list of dicts,
\* each with exactly the keys title and value, equal in content and order
\* to the result it was given.
C8_JsonRoundTrip ==
    pc = "done" =>
        LET back == JsonLoads(outFile.content)
        IN  /\ back.ok
            /\ Len(back.val) = Len(result)
            /\ \A i \in 1..Len(back.val) :
                  /\ Len(back.val[i]) = 2
                  /\ back.val[i][1][1] = TITLE
                  /\ back.val[i][2][1] = VALUE
                  /\ back.val[i][1][2] = result[i][1][2]
                  /\ back.val[i][2][2] = result[i][2][2]

C8_Witness ==
    /\ pc = "done"
    /\ Len(result) = 2
    /\ result[1][2][2] = <<QUOTE>>
    /\ result[2][2][2] = <<BSLASH, "a">>

\* what follows the last line terminator of text
RECURSIVE UnterminatedTail(_)
UnterminatedTail(text) ==
    IF text = <<>> \/ IsTerminator(text[Len(text)]) THEN <<>>
    ELSE Append(UnterminatedTail(SubSeq(text, 1, Len(text) - 1)), text[Len(text)])

FromLocalFile == pc \in PastParse /\ localFile.state = "read"

C10_SecretsAlwaysConsulted ==
    target = "ok" =>
        /\ pc \in PastParse => Happened("secrets_fetch") /\ remote.kind # "pending"
        /\ pc = "cookies_done" /\ cookies = <<>> =>
              \A r \in RemoteOutcomes :
                  ~RemoteSucceeded(r) => ENABLED (remote' = r /\ localFile' = Missing /\ Next)
        /\ cookies = <<>> /\ RemoteFailed /\ localFile.state = "missing" =>
              /\ pc = "crashed"
              /\ ~Happened("file_write")
              /\ outFile \in {NoFile, File(OldContent)}
              /\ ~ENABLED Next

C10_Witness ==
    /\ target = "ok"
    /\ cookies = <<>>
    /\ remote.kind = "ClientConnectorError"
    /\ localFile.state = "missing"
    /\ pc = "crashed"
    /\ outFile = NoFile

====
